---- MODULE Spec2Model ----
(***************************************************************************)
(* The CryptoNews client of sdk/python/crypto_news.py: the request         *)
(* primitive _request, the error classes it raises, the API key and the    *)
(* rate-limit snapshot of one client instance.                             *)
(*                                                                         *)
(* Representation.  An Optional[T] of the source is a sequence of at most  *)
(* one element: None is << >> and a value x is <<x>>.  Text the code       *)
(* parses or formats (the X-RateLimit-* header values, the reason of an    *)
(* HTTPError, the message of the generic error) is a sequence of           *)
(* one-character strings; text the code only tests for emptiness and       *)
(* passes on (keys, payment tokens, the X-PAYMENT-REQUIRED value, URLs,    *)
(* fixed messages) is a TLA+ string.                                       *)
(***************************************************************************)
EXTENDS Integers, Sequences, FiniteSets, TLC

\* ------------------------------------------------------------------ bounds
\* Header numbers are the multiples k * RateStep, k \in 0..MaxRate.
MaxRate == 1
RateStep == 5
\* Number of threads sharing one client in SpecThreads.
NThreads == 2

\* ---------------------------------------------------------------- Optional
None == << >>
Some(x) == <<x>>

\* ------------------------------------------------------- text and integers
Digits == <<"0", "1", "2", "3", "4", "5", "6", "7", "8", "9">>

IsDigit(c) == \E i \in 1..Len(Digits) : Digits[i] = c

DigitVal(c) == (CHOOSE i \in 1..Len(Digits) : Digits[i] = c) - 1

\* int(s) succeeds: a non-empty run of decimal digits (the alphabet of the
\* model has no sign, blank or underscore).
IsIntLiteral(s) == Len(s) > 0 /\ \A i \in 1..Len(s) : IsDigit(s[i])

RECURSIVE IntOf(_)
IntOf(s) ==
    IF Len(s) = 0 THEN 0
    ELSE 10 * IntOf(SubSeq(s, 1, Len(s) - 1)) + DigitVal(s[Len(s)])

\* str(n) of a non-negative integer, as the f-string of the generic error
\* formats e.code.
RECURSIVE StrOf(_)
StrOf(n) ==
    IF n < 10 THEN <<Digits[n + 1]>>
    ELSE StrOf(n \div 10) \o <<Digits[(n % 10) + 1]>>

\* Truth value of an Optional text in `if x:` : None and the empty text are
\* false.
Truthy(o) == o # None /\ o[1] # << >>

\* The same for an Optional opaque string.
TruthyStr(o) == o # None /\ o[1] # ""

\* ----------------------------------------------------------- error classes
ExceptionParent ==
    [ CryptoNewsError      |-> "Exception",
      PaymentRequiredError |-> "CryptoNewsError",
      RateLimitError       |-> "CryptoNewsError",
      ValueError           |-> "Exception",
      JSONDecodeError      |-> "ValueError",
      KeyError             |-> "Exception",
      URLError             |-> "Exception",
      Exception            |-> "" ]

\* isinstance(e, cls) for an exception of class exc: what `except cls`
\* catches.
RECURSIVE IsInstance(_, _)
IsInstance(exc, cls) ==
    IF exc = "" THEN FALSE
    ELSE exc = cls \/ IsInstance(ExceptionParent[exc], cls)

\* --------------------------------------------------------------- outcomes
NoOutcome ==
    [ kind |-> "none", exc |-> "", message |-> << >>,
      payment_required |-> None, retry_after |-> None, value |-> << >> ]

Return(v) == [NoOutcome EXCEPT !.kind = "return", !.value = v]

Raise(cls, msg) == [NoOutcome EXCEPT !.kind = "raise", !.exc = cls, !.message = msg]

\* Variant: the constructor forgets to keep payment_required.
PaymentRequiredError_NoValue(message, payment_required) ==
    Raise("PaymentRequiredError", <<message>>)

PaymentRequiredError(message, payment_required) ==
    [Raise("PaymentRequiredError", <<message>>)
        EXCEPT !.payment_required = payment_required]

RateLimitError(message, retry_after) ==
    [Raise("RateLimitError", <<message>>) EXCEPT !.retry_after = retry_after]

CryptoNewsError(message) == Raise("CryptoNewsError", message)


\* -------------------------------------------------- what urlopen can yield
HeaderNums == {k * RateStep : k \in 0..MaxRate}

\* A header value nobody can read as an integer.
NotANumber == <<"1", ".", "5">>

HeaderTexts == {<< >>, NotANumber} \cup {StrOf(n) : n \in HeaderNums}

HeaderVals == {None} \cup {Some(t) : t \in HeaderTexts}

PaymentRequiredVals == {None, Some(""), Some("eyJhY2NlcHRzIjpbXX0=")}

Bodies == {"envelope", "object", "malformed"}

Reasons ==
    { <<"N", "o", "t", " ", "F", "o", "u", "n", "d">>,
      <<"G", "o", "n", "e", ":", " ", "4", "1", "0">> }

ErrorCodes == {304, 402, 404, 429, 500}

NoResponse ==
    [ kind |-> "none", code |-> 0, reason |-> << >>, remaining |-> None,
      limit |-> None, reset |-> None, payreq |-> None, body |-> "" ]

\* urlopen returns a response: the status is 2xx.
OkResponses ==
    [ kind : {"response"}, code : {200}, reason : {<<"O", "K">>},
      remaining : HeaderVals, limit : HeaderVals, reset : HeaderVals,
      payreq : {None}, body : Bodies ]

\* urlopen raises HTTPError: any other status.  The rate-limit pair is
\* either absent or present on an error response.
ErrorResponses ==
    { [ kind |-> "HTTPError", code |-> c, reason |-> why,
        remaining |-> rl, limit |-> rl, reset |-> rs, payreq |-> pr,
        body |-> "object" ] :
      c \in ErrorCodes, why \in Reasons, rl \in {None, Some(StrOf(RateStep))},
      rs \in HeaderVals, pr \in PaymentRequiredVals }

\* urlopen raises URLError: no response at all.
TransportFailure == [NoResponse EXCEPT !.kind = "URLError"]

Responses == OkResponses \cup ErrorResponses \cup {TransportFailure}

\* ------------------------------------------------------------- the client
BASE_URL == "https://free-crypto-news.vercel.app"

KeyStrings == {"", "cda_free_1", "cda_free_2"}

PaymentTokens == {None, Some(""), Some("eyJ4NDAyVmVyc2lvbiI6Mn0=")}

VARIABLES
    api_key,          \* self.api_key
    last_rate_limit,  \* self.last_rate_limit
    pc,               \* "idle", or "returned" while the caller holds an outcome
    call,             \* the operation in progress and its payment argument
    sent,             \* the requests that operation handed to urlopen
    resp,             \* what urlopen yielded for it
    outcome,          \* what the operation returned or raised
    threads,          \* SpecThreads: each thread's position and locals
    last_writer,      \* SpecThreads: the thread that stored the snapshot last
    key_given         \* the key the caller gave last (constructor or set_api_key)

vars == <<api_key, last_rate_limit, pc, call, sent, resp, outcome, threads,
          last_writer, key_given>>

NoCall == [op |-> "", payment |-> None]

\* Variant: the headers are set without the `if` tests.
BuildHeaders_NoTruthTest(key, payment) ==
    [ Accept |-> "application/json",
      UserAgent |-> "CryptoNewsSDK-Python/1.0",
      XAPIKey |-> key,
      XPAYMENT |-> payment ]

\* headers of _request
BuildHeaders(key, payment) ==
    [ Accept |-> "application/json",
      UserAgent |-> "CryptoNewsSDK-Python/1.0",
      XAPIKey |-> IF TruthyStr(key) THEN key ELSE None,
      XPAYMENT |-> IF TruthyStr(payment) THEN payment ELSE None ]

\* Variant: a 429 is tried once more.
UrlOpen_RetryOn429(request, r) ==
    IF r.kind = "HTTPError" /\ r.code = 429 THEN <<request, request>>
    ELSE <<request>>

\* urlopen(request, timeout): the requests _request hands to urlopen.
UrlOpen(request, r) == <<request>>

\* the dict built from the three header values
NewRateLimit(remaining, limit, reset_at) ==
    [ remaining |-> IntOf(remaining[1]),
      limit |-> IntOf(limit[1]),
      reset_at |-> IF Truthy(reset_at) THEN Some(IntOf(reset_at[1])) ELSE None ]

\* Variant: the new values are merged into the old dict, a missing reset
\* keeping the old one.
StoreRateLimit_Merge(old, new) ==
    IF old = None THEN Some(new)
    ELSE Some([new EXCEPT !.reset_at =
                   IF new.reset_at = None THEN old[1].reset_at ELSE @])

\* Variant: the old dict is updated in place and only `remaining` has been
\* written when another thread looks.
StoreRateLimit_Torn(old, new) ==
    IF old = None THEN Some(new)
    ELSE Some([old[1] EXCEPT !.remaining = new.remaining])

\* self.last_rate_limit = {...}

StoreRateLimit(old, new) == Some(new)

\* json.loads(response.read().decode())
Decode(r) ==
    IF r.body = "malformed"
    THEN Raise("JSONDecodeError", <<"Expecting value">>)
    ELSE Return(<<r.body, "">>)

\* Variant: the body is decoded before the headers are looked at.
ReadResponse_DecodeFirst(old, r) ==
    IF Decode(r).kind = "raise"
    THEN [last_rate_limit |-> old, result |-> Decode(r)]
    ELSE IF Truthy(r.remaining) /\ Truthy(r.limit)
    THEN IF /\ IsIntLiteral(r.remaining[1])
            /\ IsIntLiteral(r.limit[1])
            /\ (Truthy(r.reset) => IsIntLiteral(r.reset[1]))
         THEN [ last_rate_limit |->
                    StoreRateLimit(old, NewRateLimit(r.remaining, r.limit, r.reset)),
                result |-> Decode(r) ]
         ELSE [ last_rate_limit |-> old,
                result |-> Raise("ValueError", <<"invalid literal for int()">>) ]
    ELSE [last_rate_limit |-> old, result |-> Decode(r)]

\* the body of `with urlopen(...) as response:`
ReadResponse(old, r) ==
    LET remaining == r.remaining
        limit == r.limit
        reset_at == r.reset
    IN  IF Truthy(remaining) /\ Truthy(limit)
        THEN IF /\ IsIntLiteral(remaining[1])
                /\ IsIntLiteral(limit[1])
                /\ (Truthy(reset_at) => IsIntLiteral(reset_at[1]))
             THEN [ last_rate_limit |->
                        StoreRateLimit(old, NewRateLimit(remaining, limit, reset_at)),
                    result |-> Decode(r) ]
             ELSE [ last_rate_limit |-> old,
                    result |-> Raise("ValueError", <<"invalid literal for int()">>) ]
        ELSE [last_rate_limit |-> old, result |-> Decode(r)]

\* Variant: the message leaves the status out.
HttpMessage_NoStatus(code, reason) == <<"H", "T", "T", "P", " ">> \o reason

\* f'HTTP {e.code}: {e.reason}'

HttpMessage(code, reason) ==
    <<"H", "T", "T", "P", " ">> \o StrOf(code) \o <<":", " ">> \o reason

\* Variant: the 429 branch is folded into the 402 branch.
HTTPErrorHandler_429AsPayment(e) ==
    IF e.code = 402 \/ e.code = 429
    THEN PaymentRequiredError("Payment required", e.payreq)
    ELSE CryptoNewsError(HttpMessage(e.code, e.reason))

\* except urllib.error.HTTPError as e
HTTPErrorHandler(e) ==
    IF e.code = 402
    THEN PaymentRequiredError("Payment required", e.payreq)
    ELSE IF e.code = 429
    THEN IF Truthy(e.reset) /\ ~IsIntLiteral(e.reset[1])
         THEN Raise("ValueError", <<"invalid literal for int()">>)
         ELSE RateLimitError("Rate limit exceeded",
                  IF Truthy(e.reset) THEN Some(IntOf(e.reset[1])) ELSE None)
    ELSE CryptoNewsError(HttpMessage(e.code, e.reason))

\* _request(endpoint, payment) on a client with key `key` and snapshot `old`,
\* when urlopen yields r.
Request(key, old, endpoint, payment, r) ==
    LET request == [ url |-> <<BASE_URL>> \o endpoint,
                     headers |-> BuildHeaders(key, payment) ]
        wire == UrlOpen(request, r)
    IN  IF r.kind = "response"
        THEN [sent |-> wire] @@ ReadResponse(old, r)
        ELSE IF r.kind = "HTTPError"
        THEN [ sent |-> wire, last_rate_limit |-> old,
               result |-> HTTPErrorHandler(r) ]
        ELSE [ sent |-> wire, last_rate_limit |-> old,
               result |-> Raise("URLError", <<"urlopen error">>) ]

\* The eighteen read operations differ in their endpoint and in three
\* respects that matter here; one operation of each kind is modelled:
\* get_latest for those that return one field of the body, get_usage for the
\* one with a local precondition, get_premium_coin for those that take a
\* payment token (without a token it is any plain operation).

\* result["articles"]
Subscript(res, field) ==
    IF res.result.kind # "return" THEN res
    ELSE IF res.result.value[1] = "envelope"
    THEN [res EXCEPT !.result = Return(<<"envelope", field>>)]
    ELSE [res EXCEPT !.result = Raise("KeyError", <<field>>)]

get_latest(key, old, r) ==
    Subscript(Request(key, old, <<"/api/news?limit=", "10">>, None, r), "articles")

\* 'API key required. Call set_api_key() first.'
KeyRequiredMessage == <<"API key required. Call set_api_key() first.">>

\* Variant: get_usage without its test.
UsageGuard_Missing(key) == FALSE

\* `if not self.api_key` of get_usage
UsageGuard(key) == ~TruthyStr(key)

get_usage(key, old, r) ==
    IF UsageGuard(key)
    THEN [ sent |-> << >>, last_rate_limit |-> old,
           result |-> CryptoNewsError(KeyRequiredMessage) ]
    ELSE Request(key, old, <<"/api/v1/usage">>, None, r)

get_premium_coin(key, old, payment, r) ==
    Request(key, old, <<"/api/v1/coins/", "bitcoin">>, payment, r)

\* ------------------------------------------ one caller, one call at a time
ThreadIds == 1..NThreads

ThreadStart ==
    [ pc |-> "start", resp |-> NoResponse, remaining |-> None, limit |-> None,
      reset_at |-> None, result |-> NoOutcome ]

\* CryptoNews(base_url, api_key, timeout)
Init ==
    /\ api_key \in {None} \cup {Some(k) : k \in KeyStrings}
    /\ last_rate_limit = None
    /\ pc = "idle"
    /\ call = NoCall
    /\ sent = << >>
    /\ resp = NoResponse
    /\ outcome = NoOutcome
    /\ threads = [t \in ThreadIds |-> ThreadStart]
    /\ last_writer = 0
    /\ key_given = api_key

\* The operation op(payment) runs to its end with urlopen yielding r and
\* hands res.result to the caller.
Finish(op, payment, r, res) ==
    /\ pc' = "returned"
    /\ call' = [op |-> op, payment |-> payment]
    /\ resp' = r
    /\ sent' = res.sent
    /\ outcome' = res.result
    /\ last_rate_limit' = res.last_rate_limit
    /\ UNCHANGED <<api_key, threads, last_writer, key_given>>

\* self.api_key = api_key
StoreKey(old, k) == Some(k)

set_api_key ==
    /\ pc = "idle"
    /\ \E k \in KeyStrings :
          /\ api_key' = StoreKey(api_key, k)
          /\ key_given' = Some(k)
    /\ UNCHANGED <<last_rate_limit, pc, call, sent, resp, outcome, threads,
                   last_writer>>

get_rate_limit_info ==
    /\ pc = "idle"
    /\ pc' = "returned"
    /\ call' = [op |-> "get_rate_limit_info", payment |-> None]
    /\ outcome' = Return(<<"rate_limit", last_rate_limit>>)
    /\ UNCHANGED <<api_key, last_rate_limit, sent, resp, threads, last_writer, key_given>>

GetLatest ==
    /\ pc = "idle"
    /\ \E r \in Responses :
        Finish("get_latest", None, r, get_latest(api_key, last_rate_limit, r))

GetUsage ==
    /\ pc = "idle"
    /\ IF UsageGuard(api_key)
       THEN Finish("get_usage", None, NoResponse,
                   get_usage(api_key, last_rate_limit, NoResponse))
       ELSE \E r \in Responses :
               Finish("get_usage", None, r, get_usage(api_key, last_rate_limit, r))

GetPremiumCoin ==
    /\ pc = "idle"
    /\ \E payment \in PaymentTokens, r \in Responses :
        Finish("get_premium_coin", payment, r,
               get_premium_coin(api_key, last_rate_limit, payment, r))

\* The caller has the outcome of its call and goes on to the next one.
Resume ==
    /\ pc = "returned"
    /\ pc' = "idle"
    /\ call' = NoCall
    /\ sent' = << >>
    /\ resp' = NoResponse
    /\ outcome' = NoOutcome
    /\ UNCHANGED <<api_key, last_rate_limit, threads, last_writer, key_given>>

Next ==
    \/ set_api_key
    \/ get_rate_limit_info
    \/ GetLatest
    \/ GetUsage
    \/ GetPremiumCoin
    \/ Resume

Spec == Init /\ [][Next]_vars

\* ------------------------------- several threads calling on the same client
\* What urlopen yields to a thread: 2xx responses with or without the
\* rate-limit headers, and a 429.
ThreadResponses ==
    { r \in OkResponses :
        /\ r.body = "object"
        /\ r.limit = Some(StrOf(RateStep))
        /\ r.remaining \in {None} \cup {Some(StrOf(n)) : n \in HeaderNums}
        /\ r.reset \in {None, Some(StrOf(RateStep))} }
    \cup
    { r \in ErrorResponses :
        /\ r.code = 429
        /\ r.reason = <<"G", "o", "n", "e", ":", " ", "4", "1", "0">>
        /\ r.remaining = None
        /\ r.reset = None
        /\ r.payreq = None }

InitThreads ==
    /\ Init
    /\ api_key = Some("cda_free_1")

\* Thread t enters _request and urlopen yields r: on an HTTPError the
\* handler raises at once, on a response the thread holds it and its headers.
Open(t) ==
    /\ threads[t].pc = "start"
    /\ \E r \in ThreadResponses :
          LET res == Request(api_key, last_rate_limit, <<"/api/stats">>, None, r)
          IN  threads' = [threads EXCEPT ![t] =
                  IF r.kind = "response"
                  THEN [@ EXCEPT !.pc = "opened", !.resp = r,
                                 !.remaining = r.remaining, !.limit = r.limit,
                                 !.reset_at = r.reset]
                  ELSE [@ EXCEPT !.pc = "done", !.resp = r, !.result = res.result]]
    /\ UNCHANGED <<api_key, last_rate_limit, pc, call, sent, resp, outcome,
                   last_writer, key_given>>

\* `if remaining and limit: self.last_rate_limit = {...}` : the dict is
\* built from the thread's locals and stored by one attribute assignment.
Store(t) ==
    /\ threads[t].pc = "opened"
    /\ LET res == ReadResponse(last_rate_limit, threads[t].resp)
           stores == Truthy(threads[t].remaining) /\ Truthy(threads[t].limit)
                       /\ res.result.exc # "ValueError"
       IN  /\ last_rate_limit' = res.last_rate_limit
           /\ last_writer' = IF stores THEN t ELSE last_writer
           /\ threads' = [threads EXCEPT ![t] =
                  IF res.result.exc = "ValueError"
                  THEN [@ EXCEPT !.pc = "done", !.result = res.result]
                  ELSE [@ EXCEPT !.pc = "stored"]]
    /\ UNCHANGED <<api_key, pc, call, sent, resp, outcome, key_given>>

\* `return json.loads(response.read().decode())`
Load(t) ==
    /\ threads[t].pc = "stored"
    /\ threads' = [threads EXCEPT ![t] =
           [@ EXCEPT !.pc = "done", !.result = Decode(threads[t].resp)]]
    /\ UNCHANGED <<api_key, last_rate_limit, pc, call, sent, resp, outcome,
                   last_writer, key_given>>

\* Any thread reads the snapshot with get_rate_limit_info().
Read ==
    /\ call' = [op |-> "get_rate_limit_info", payment |-> None]
    /\ outcome' = Return(<<"rate_limit", last_rate_limit>>)
    /\ UNCHANGED <<api_key, last_rate_limit, pc, sent, resp, threads,
                   last_writer, key_given>>

NextThreads ==
    \/ \E t \in ThreadIds : Open(t)
    \/ \E t \in ThreadIds : Store(t)
    \/ \E t \in ThreadIds : Load(t)
    \/ Read

SpecThreads == InitThreads /\ [][NextThreads]_vars

\* =================================================================== claims
\* The header h carries an integer.
HeaderInt(h) == Truthy(h) /\ IsIntLiteral(h[1])

\* The header h carries nothing: it is absent or empty.
HeaderBlank(h) == ~Truthy(h)

\* A 2xx response carrying both X-RateLimit-Remaining and X-RateLimit-Limit
\* as integers, and X-RateLimit-Reset as an integer if it carries one.
Qualifies(r) ==
    /\ r.kind = "response"
    /\ HeaderInt(r.remaining)
    /\ HeaderInt(r.limit)
    /\ (HeaderInt(r.reset) \/ HeaderBlank(r.reset))

\* The triple (remaining, limit, reset_at) of the response r.
TripleOf(r) ==
    [ remaining |-> IntOf(r.remaining[1]),
      limit |-> IntOf(r.limit[1]),
      reset_at |-> IF HeaderBlank(r.reset) THEN None ELSE Some(IntOf(r.reset[1])) ]

\* An operation that goes through _request has handed its outcome over.
Answered == pc = "returned" /\ call.op # "get_rate_limit_info"

\* C1: a 402 makes the call fail with PaymentRequiredError, and the value it
\* carries is the X-PAYMENT-REQUIRED header exactly as received, or None
\* when the response has no such header.
C1_PaymentRequired ==
    (Answered /\ resp.kind = "HTTPError" /\ resp.code = 402) =>
        /\ outcome.kind = "raise"
        /\ outcome.exc = "PaymentRequiredError"
        /\ outcome.payment_required = resp.payreq

C1_Witness ==
    /\ Answered
    /\ call.op = "get_latest"
    /\ resp.kind = "HTTPError"
    /\ resp.code = 402
    /\ resp.payreq = Some("eyJhY2NlcHRzIjpbXX0=")
    /\ outcome.exc = "PaymentRequiredError"
    /\ outcome.payment_required = Some("eyJhY2NlcHRzIjpbXX0=")

\* C2: a 429 makes the call fail with RateLimitError, whatever the headers
\* of the response, and the error carries X-RateLimit-Reset as an integer
\* when the header is there and None when it is not.
C2_RateLimitExceeded ==
    (Answered /\ resp.kind = "HTTPError" /\ resp.code = 429) =>
        /\ outcome.kind = "raise"
        /\ outcome.exc = "RateLimitError"
        /\ outcome.retry_after =
               IF HeaderBlank(resp.reset) THEN None
               ELSE Some(IntOf(resp.reset[1]))

\* C3: any other non-2xx status makes the call fail with the generic
\* CryptoNewsError, whose message is "HTTP <status>: <reason>": the decimal
\* status read back from it is the status of the response, and the text
\* after it is the reason.
C3_ApiError ==
    (Answered /\ resp.kind = "HTTPError" /\ resp.code \notin {402, 429}) =>
        /\ outcome.kind = "raise"
        /\ outcome.exc = "CryptoNewsError"
        /\ LET m == outcome.message
           IN  /\ Len(m) > 5
               /\ SubSeq(m, 1, 5) = <<"H", "T", "T", "P", " ">>
               /\ \E i \in 6..Len(m) :
                     /\ m[i] = ":"
                     /\ \A j \in 6..(i - 1) : m[j] # ":"
                     /\ IsIntLiteral(SubSeq(m, 6, i - 1))
                     /\ IntOf(SubSeq(m, 6, i - 1)) = resp.code
                     /\ i < Len(m)
                     /\ m[i + 1] = " "
                     /\ SubSeq(m, i + 2, Len(m)) = resp.reason

C3_Witness ==
    /\ Answered
    /\ resp.kind = "HTTPError"
    /\ resp.code = 404
    /\ resp.reason = <<"G", "o", "n", "e", ":", " ", "4", "1", "0">>
    /\ outcome.exc = "CryptoNewsError"
    /\ outcome.message =
           <<"H", "T", "T", "P", " ", "4", "0", "4", ":", " ",
             "G", "o", "n", "e", ":", " ", "4", "1", "0">>

\* What a step that runs get_usage does.
C4_Step ==
    (pc = "idle" /\ pc' = "returned" /\ call'.op = "get_usage") =>
        /\ key_given = None =>
              /\ outcome'.kind = "raise"
              /\ outcome'.exc = "CryptoNewsError"
              /\ outcome'.message = KeyRequiredMessage
              /\ sent' = << >>
              /\ resp' = NoResponse
              /\ api_key' = api_key
              /\ last_rate_limit' = last_rate_limit
        /\ TruthyStr(key_given) =>
              /\ Len(sent') = 1
              /\ sent'[1].url = <<BASE_URL, "/api/v1/usage">>
              /\ sent'[1].headers.XAPIKey = key_given

\* C4: get_usage on a client that was never given a key raises the
\* CryptoNewsError 'API key required...' without any request, and leaves the
\* key and the snapshot as they were; on a client given a non-empty key it
\* sends its one request to /api/v1/usage.
C4_GetUsage == [][C4_Step]_vars

C4_Witness ==
    /\ pc = "returned"
    /\ call.op = "get_usage"
    /\ key_given = None
    /\ outcome.exc = "CryptoNewsError"
    /\ outcome.message = KeyRequiredMessage
    /\ sent = << >>
    /\ last_rate_limit # None

\* What any step does to the snapshot.
C5_Step ==
    /\ IF pc = "idle" /\ pc' = "returned" /\ Qualifies(resp')
       THEN last_rate_limit' = Some(TripleOf(resp'))
       ELSE last_rate_limit' = last_rate_limit
    /\ (pc' = "returned" /\ call'.op = "get_rate_limit_info") =>
           outcome' = Return(<<"rate_limit", last_rate_limit>>)

\* C5: the snapshot is None until a qualifying 2xx response arrives, every
\* qualifying response replaces it by that response's own triple (reset_at
\* None when the response has no reset), nothing else changes it, and
\* get_rate_limit_info returns it.
C5_Snapshot == (last_rate_limit = None) /\ [][C5_Step]_vars

C5_Witness ==
    /\ Answered
    /\ Qualifies(resp)
    /\ resp.remaining = Some(<<"0">>)
    /\ resp.reset = None
    /\ last_rate_limit = Some(TripleOf(resp))
    /\ last_rate_limit[1].reset_at = None

C6_Step ==
    (pc = "idle" /\ pc' = "returned") =>
        /\ resp'.kind \in {"HTTPError", "URLError"} =>
              /\ outcome'.kind = "raise"
              /\ last_rate_limit' = last_rate_limit
        /\ (Qualifies(resp') /\ resp'.body = "malformed") =>
              /\ outcome'.kind = "raise"
              /\ outcome'.exc = "JSONDecodeError"
              /\ last_rate_limit' = Some(TripleOf(resp'))

C7_AuthHeaders ==
    \A i \in 1..Len(sent) :
        /\ sent[i].headers.XAPIKey =
               IF TruthyStr(key_given) THEN key_given ELSE None
        /\ sent[i].headers.XPAYMENT =
               IF TruthyStr(call.payment) THEN call.payment ELSE None

C7_Witness ==
    /\ Answered
    /\ Len(sent) = 1
    /\ key_given = Some("cda_free_2")
    /\ call.payment = Some("eyJ4NDAyVmVyc2lvbiI6Mn0=")
    /\ sent[1].headers.XAPIKey = Some("cda_free_2")
    /\ sent[1].headers.XPAYMENT = Some("eyJ4NDAyVmVyc2lvbiI6Mn0=")

\* C8: an operation hands exactly one request to urlopen, whatever urlopen
\* yields, and none when it fails its local precondition first.
C8_SingleGet ==
    Answered =>
        /\ Len(sent) <= 1
        /\ Len(sent) = 0 <=>
               (outcome.kind = "raise" /\ outcome.message = KeyRequiredMessage)
        /\ Len(sent) = 1 <=> resp # NoResponse

C8_Witness ==
    /\ Answered
    /\ call.op = "get_premium_coin"
    /\ call.payment = Some("eyJ4NDAyVmVyc2lvbiI6Mn0=")
    /\ resp.kind = "HTTPError"
    /\ resp.code = 429
    /\ outcome.exc = "RateLimitError"
    /\ Len(sent) = 1

\* The taxonomy's condition of a failed call, by its cause.
ConditionOf(c, r, o) ==
    IF r.kind = "HTTPError" /\ r.code = 402 THEN "PaymentRequired"
    ELSE IF r.kind = "HTTPError" /\ r.code = 429 THEN "RateLimitExceeded"
    ELSE IF r.kind = "HTTPError" THEN "ApiError"
    ELSE IF r = NoResponse /\ c.op = "get_usage" THEN "ConfigurationError"
    ELSE "other"

Conditions == {"PaymentRequired", "RateLimitExceeded", "ApiError", "ConfigurationError"}

\* The class a caller names in `except` to handle a condition.
HandlerFor ==
    [ PaymentRequired    |-> "PaymentRequiredError",
      RateLimitExceeded  |-> "RateLimitError",
      ApiError           |-> "CryptoNewsError",
      ConfigurationError |-> "CryptoNewsError" ]

\* C9 as claimed: a failure raised as one of the four conditions reaches the
\* handler written for its own condition and no handler written for another.
C9_Original ==
    ( /\ Answered
      /\ outcome.kind = "raise"
      /\ IsInstance(outcome.exc, "CryptoNewsError")
      /\ ConditionOf(call, resp, outcome) \in Conditions ) =>
        \A c \in Conditions :
            IsInstance(outcome.exc, HandlerFor[c])
                <=> c = ConditionOf(call, resp, outcome)

\* C9 as amended: no failure ends in a normal return; PaymentRequiredError
\* is raised for every 402 and nothing else, RateLimitError for nothing but
\* a 429, so a handler for either receives no other condition; the generic
\* error and the missing-key error are both exactly CryptoNewsError, told
\* apart by their message; and a handler for CryptoNewsError receives all
\* four.
C9_Taxonomy ==
    Answered =>
        /\ (resp.kind \in {"HTTPError", "URLError"} \/ resp = NoResponse) =>
               outcome.kind = "raise"
        /\ IsInstance(outcome.exc, "PaymentRequiredError") <=>
               (resp.kind = "HTTPError" /\ resp.code = 402)
        /\ IsInstance(outcome.exc, "RateLimitError") =>
               (resp.kind = "HTTPError" /\ resp.code = 429)
        /\ ConditionOf(call, resp, outcome) \in {"ApiError", "ConfigurationError"} =>
               /\ outcome.exc = "CryptoNewsError"
               /\ (outcome.message = KeyRequiredMessage) <=>
                      (ConditionOf(call, resp, outcome) = "ConfigurationError")
        /\ ( \/ ConditionOf(call, resp, outcome)
                    \in {"PaymentRequired", "ApiError", "ConfigurationError"}
              \/ IsInstance(outcome.exc, "RateLimitError") ) =>
               IsInstance(outcome.exc, "CryptoNewsError")

C9_Witness ==
    /\ Answered
    /\ resp.kind = "HTTPError"
    /\ resp.code = 429
    /\ outcome.exc = "RateLimitError"
    /\ IsInstance(outcome.exc, "CryptoNewsError")
    /\ ~IsInstance(outcome.exc, "PaymentRequiredError")

\* The threads whose response qualifies.
QualifiedThreads == {t \in ThreadIds : Qualifies(threads[t].resp)}

\* C10: with several threads inside _request on one client, the snapshot is
\* at every moment None or the whole triple of the response whose thread
\* stored last, and a read returns None or the whole triple of one response.

C10_SingleCell ==
    /\ last_rate_limit =
          IF last_writer = 0 THEN None
          ELSE Some(TripleOf(threads[last_writer].resp))
    /\ last_writer # 0 => last_writer \in QualifiedThreads
    /\ outcome.kind = "return" =>
          outcome.value[2] \in
              {None} \cup {Some(TripleOf(threads[t].resp)) : t \in QualifiedThreads}

C10_Witness ==
    /\ \A t \in ThreadIds : threads[t].pc = "done"
    /\ last_writer # 0
    /\ last_rate_limit = Some(TripleOf(threads[last_writer].resp))
    /\ last_rate_limit[1].reset_at = None
    /\ \E t \in QualifiedThreads :
          /\ t # last_writer
          /\ TripleOf(threads[t].resp).reset_at # None
          /\ outcome.kind = "return"
          /\ outcome.value[2] = Some(TripleOf(threads[t].resp))

====
